---- MODULE Spec2Model ----
(***************************************************************************)
(* fzvoid: void a Fat Zebra purchase.  For each purchase reference the     *)
(* program fetches the purchase (GET), takes the gateway id out of the     *)
(* response and posts a void for that id.  The model follows src/main.rs:  *)
(* main, read_file, fetch_n_void, FetchResponses::fetch_purchase,          *)
(* FetchResponses::void_transaction and the serde decoding of the gateway  *)
(* envelope.  The gateway and the file system are the environment: every   *)
(* answer they can give is drawn from a small set.                         *)
(***************************************************************************)
EXTENDS Integers, Sequences, FiniteSets, TLC

\* Longest input file, in lines.
MaxLines == 2

(***************************************************************************)
(* Rust's Option<T> is a sequence of length at most one.                   *)
(***************************************************************************)
None == <<>>
Some(x) == <<x>>
IsSome(o) == Len(o) = 1
Unwrap(o) == o[1]

(***************************************************************************)
(* Command line (struct Cli) and the values drawn for it.                  *)
(***************************************************************************)
Usernames == {"TEST", "LIVE-1"}
Tokens == {"tok"}
CliReferences == {"abc-1"}
CliFilenames == {"refs.txt"}

Cli ==
  [username : Usernames, token : Tokens,
   reference : {None} \cup {Some(r) : r \in CliReferences},
   filename : {None} \cup {Some(f) : f \in CliFilenames}]

\* impl Default for Params
ParamsDefault == [username |-> "", token |-> "", reference |-> "", filename |-> ""]

\* The match with its arms in the other order of precedence: a reference, when
\* given, selects single mode.
PopulateParams_reference_first(a) ==
  IF IsSome(a.reference)
    THEN [username |-> a.username, token |-> a.token,
          filename |-> "", reference |-> Unwrap(a.reference)]
    ELSE IF IsSome(a.filename)
      THEN [username |-> a.username, token |-> a.token,
            filename |-> Unwrap(a.filename), reference |-> ""]
      ELSE ParamsDefault

\* The match of main on (_args.filename, _args.reference).
PopulateParams(a) ==
  IF IsSome(a.filename)
    THEN [username |-> a.username, token |-> a.token,
          filename |-> Unwrap(a.filename), reference |-> ""]
    ELSE IF IsSome(a.reference)
      THEN [username |-> a.username, token |-> a.token,
            filename |-> "", reference |-> Unwrap(a.reference)]
      ELSE ParamsDefault

(***************************************************************************)
(* The input file.  A file that cannot be opened reads as no lines.        *)
(***************************************************************************)
LineValues == {"r1", " r2 ", ""}

RECURSIVE SeqsUpTo(_, _)
SeqsUpTo(S, n) ==
  IF n = 0 THEN {<<>>}
  ELSE LET shorter == SeqsUpTo(S, n - 1)
       IN  shorter \cup {Append(s, x) : s \in {t \in shorter : Len(t) = n - 1}, x \in S}

FileStates ==
  {[exists |-> FALSE, lines |-> <<>>]}
    \cup {[exists |-> TRUE, lines |-> l] : l \in SeqsUpTo(LineValues, MaxLines)}

read_file(f) == IF f.exists THEN f.lines ELSE <<>>

(***************************************************************************)
(* Endpoints (impl Default for Url, Url::get_fetch_url, Url::get_void_url).*)
(***************************************************************************)
sandbox_fetch_url == "https://gateway.pmnts-sandbox.io/v1.0/purchases/"
production_fetch_url == "https://gateway.pmnts.io/v1.0/purchases/"
sandbox_void_url == "https://gateway.pmnts-sandbox.io/v1.0/purchases/void?id="
production_void_url == "https://gateway.pmnts.io/v1.0/purchases/void?id="

get_fetch_url(merchant_id) ==
  IF merchant_id = "SC-scnet" THEN sandbox_fetch_url
  ELSE IF merchant_id = "TEST" THEN sandbox_fetch_url
  ELSE production_fetch_url

\* get_void_url with the "TEST" arm left out.
get_void_url_without_test(merchant_id) ==
  IF merchant_id = "SC-scnet" THEN sandbox_void_url
  ELSE production_void_url

get_void_url(merchant_id) ==
  IF merchant_id = "SC-scnet" THEN sandbox_void_url
  ELSE IF merchant_id = "TEST" THEN sandbox_void_url
  ELSE production_void_url

(***************************************************************************)
(* Gateway answers.  An HTTP exchange fails in send(), fails while the     *)
(* body is read, or yields a body text.  A body is either not a JSON       *)
(* object or a JSON object whose three slots each have a shape.            *)
(***************************************************************************)
Ids == {"", "txn-9"}
ErrorLists == {<<>>, <<"not found", "declined">>}

SuccessfulSlots ==
  {[shape |-> s, val |-> FALSE] : s \in {"missing", "null", "illtyped"}}
    \cup {[shape |-> "value", val |-> b] : b \in BOOLEAN}
ResponseSlots ==
  {[shape |-> s, val |-> [id |-> ""]] : s \in {"missing", "null", "illtyped"}}
    \cup {[shape |-> "value", val |-> [id |-> i]] : i \in Ids}
ErrorsSlots ==
  {[shape |-> s, val |-> <<>>] : s \in {"missing", "null", "illtyped"}}
    \cup {[shape |-> "value", val |-> e] : e \in ErrorLists}

NotJson ==
  [json |-> FALSE,
   successful |-> [shape |-> "missing", val |-> FALSE],
   response |-> [shape |-> "missing", val |-> [id |-> ""]],
   errors |-> [shape |-> "missing", val |-> <<>>]]

Bodies ==
  {NotJson} \cup
  [json : {TRUE}, successful : SuccessfulSlots, response : ResponseSlots,
   errors : ErrorsSlots]

HttpOutcomes ==
  {[kind |-> k, body |-> NotJson] : k \in {"send_fail", "body_fail"}}
    \cup {[kind |-> "text", body |-> b] : b \in Bodies}

(***************************************************************************)
(* Decoding (struct FetchResponses with #[serde(default)], and             *)
(* deserialize_optional_field).                                            *)
(***************************************************************************)
\* #[derive(Default)] for FetchResponses
EnvelopeDefault == [successful |-> FALSE, response |-> None, errors |-> None]

\* Called for a slot that is present in the object: null gives None, a value
\* of the expected type gives Some(Some(value)), anything else is an error that
\* is swallowed into None.
deserialize_optional_field(slot) ==
  IF slot.shape = "value" THEN Some(Some(slot.val)) ELSE None

\* serde_json::from_str::<FetchResponses>; ok = FALSE is Err.
from_str(body) ==
  IF ~body.json THEN [ok |-> FALSE, env |-> EnvelopeDefault]
  ELSE IF body.successful.shape \in {"null", "illtyped"}
    THEN [ok |-> FALSE, env |-> EnvelopeDefault]
  ELSE [ok |-> TRUE,
        env |-> [successful |-> IF body.successful.shape = "missing"
                                  THEN EnvelopeDefault.successful
                                  ELSE body.successful.val,
                 response |-> IF body.response.shape = "missing"
                                THEN EnvelopeDefault.response
                                ELSE deserialize_optional_field(body.response),
                 errors |-> IF body.errors.shape = "missing"
                              THEN EnvelopeDefault.errors
                              ELSE deserialize_optional_field(body.errors)]]

(***************************************************************************)
(* What the gateway answered to a request, as the program sees it: how the *)
(* exchange ended and, for a body text, what it decodes to.                *)
(***************************************************************************)
Undecoded == [ok |-> FALSE, env |-> EnvelopeDefault]
NoAnswer == [kind |-> "none", dec |-> Undecoded]
Observed(o) ==
  [kind |-> o.kind, dec |-> IF o.kind = "text" THEN from_str(o.body) ELSE Undecoded]

(***************************************************************************)
(* The Authorization header: "Basic " followed by base64::encode of        *)
(* username ':' token (standard alphabet, padded).  Characters are turned  *)
(* into bytes by their ASCII codes.                                        *)
(***************************************************************************)
Digits == "0123456789"
UpperCase == "ABCDEFGHIJKLMNOPQRSTUVWXYZ"
LowerCase == "abcdefghijklmnopqrstuvwxyz"

CharAt(s, i) == SubSeq(s, i, i)

\* ASCII code of a one-character string
ByteOf ==
  [c \in {CharAt(Digits, i) : i \in 1..10} |->
      47 + CHOOSE i \in 1..10 : CharAt(Digits, i) = c]
  @@ [c \in {CharAt(UpperCase, i) : i \in 1..26} |->
      64 + CHOOSE i \in 1..26 : CharAt(UpperCase, i) = c]
  @@ [c \in {CharAt(LowerCase, i) : i \in 1..26} |->
      96 + CHOOSE i \in 1..26 : CharAt(LowerCase, i) = c]
  @@ (" " :> 32) @@ ("-" :> 45) @@ ("." :> 46) @@ (":" :> 58) @@ ("_" :> 95)

Base64Alphabet == UpperCase \o LowerCase \o Digits \o "+/"
Sextet(k) == CharAt(Base64Alphabet, k + 1)

RECURSIVE base64_encode(_)
base64_encode(s) ==
  IF Len(s) = 0 THEN ""
  ELSE IF Len(s) = 1
    THEN LET n == ByteOf[CharAt(s, 1)] * 16
         IN  Sextet(n \div 64) \o Sextet(n % 64) \o "=="
  ELSE IF Len(s) = 2
    THEN LET n == ByteOf[CharAt(s, 1)] * 1024 + ByteOf[CharAt(s, 2)] * 4
         IN  Sextet(n \div 4096) \o Sextet((n \div 64) % 64) \o Sextet(n % 64)
               \o "="
  ELSE LET n == ByteOf[CharAt(s, 1)] * 65536 + ByteOf[CharAt(s, 2)] * 256
                  + ByteOf[CharAt(s, 3)]
       IN  Sextet(n \div 262144) \o Sextet((n \div 4096) % 64)
             \o Sextet((n \div 64) % 64) \o Sextet(n % 64)
             \o base64_encode(SubSeq(s, 4, Len(s)))

\* The header value built at the start of fetch_purchase and void_transaction.
Authorization(p) == "Basic " \o base64_encode(p.username \o ":" \o p.token)

(***************************************************************************)
(* Result<FetchResponses, Box<dyn Error>> of the two gateway calls, and    *)
(* Result<(), Box<dyn Error>> of fetch_n_void.  A panic (an unwrap of None *)
(* or of Err) is the tag "Panic"; "Pending" is a call that has not         *)
(* returned.                                                               *)
(***************************************************************************)
Pending == [tag |-> "Pending", err |-> "", env |-> EnvelopeDefault]
Ok(e) == [tag |-> "Ok", err |-> "", env |-> e]
Err(msg) == [tag |-> "Err", err |-> msg, env |-> EnvelopeDefault]
Panicked == [tag |-> "Panic", err |-> "", env |-> EnvelopeDefault]

return_error(msg, reference) == Err(msg \o reference)

\* {:?} of a String
Debug(s) == "\"" \o s \o "\""

\* x.errors.unwrap().unwrap().errors.first().unwrap() returns a value
HasFirstError(env) ==
  /\ IsSome(env.errors)
  /\ IsSome(Unwrap(env.errors))
  /\ Len(Unwrap(Unwrap(env.errors))) > 0
FirstError(env) == Head(Unwrap(Unwrap(env.errors)))

\* x.response.unwrap().unwrap().id returns a value
HasId(env) == IsSome(env.response) /\ IsSome(Unwrap(env.response))
IdOf(env) == Unwrap(Unwrap(env.response)).id

VoidedLine(r) == r \o " - Voided"
VoidingFailedLine(r, e) == r \o " - Voiding failed - " \o Debug(e)

(***************************************************************************)
(* FetchResponses::fetch_purchase, from the answer of the GET on.          *)
(***************************************************************************)
fetch_purchase(r, o) ==
  IF o.kind = "send_fail" THEN Err("reqwest::Error")
  ELSE IF o.kind = "body_fail" THEN Panicked
  ELSE LET d == from_str(o.body)
       IN  IF d.ok THEN Ok(d.env)
           ELSE return_error("00Error voiding transaction: ", r)

\* void_transaction without its test of b.successful: every decoded answer is
\* reported as voided.
void_transaction_ignoring_successful(r, o) ==
  IF o.kind \in {"send_fail", "body_fail"}
    THEN [lines |-> <<>>, res |-> Err("reqwest::Error")]
  ELSE LET d == from_str(o.body)
       IN  IF d.ok
             THEN [lines |-> <<VoidedLine(r)>>, res |-> Ok(d.env)]
             ELSE [lines |-> <<>>,
                   res |-> return_error("02Error voiding transaction: ", r)]

(***************************************************************************)
(* FetchResponses::void_transaction, from the answer of the POST on: the   *)
(* lines it prints and what it returns.                                    *)
(***************************************************************************)
void_transaction(r, o) ==
  IF o.kind \in {"send_fail", "body_fail"}
    THEN [lines |-> <<>>, res |-> Err("reqwest::Error")]
  ELSE LET d == from_str(o.body)
       IN  IF d.ok
             THEN IF d.env.successful
                    THEN [lines |-> <<VoidedLine(r)>>, res |-> Ok(d.env)]
                    ELSE IF HasFirstError(d.env)
                      THEN [lines |-> <<VoidingFailedLine(r, FirstError(d.env))>>,
                            res |-> return_error("01Error voiding transaction: ", r)]
                      ELSE [lines |-> <<>>, res |-> Panicked]
             ELSE [lines |-> <<>>,
                   res |-> return_error("02Error voiding transaction: ", r)]

\* fetch_n_void without its test of fe.successful: every decoded fetch that
\* carries an id goes on to the void request.
fetch_n_void_on_fetch_ignoring_successful(r, fr) ==
  IF fr.tag = "Panic"
    THEN [next |-> "return", id |-> "", lines |-> <<>>, ret |-> Panicked]
  ELSE IF fr.tag = "Ok"
    THEN IF HasId(fr.env)
           THEN [next |-> "void", id |-> IdOf(fr.env), lines |-> <<>>,
                 ret |-> Pending]
           ELSE [next |-> "return", id |-> "", lines |-> <<>>, ret |-> Panicked]
  ELSE [next |-> "return", id |-> "", lines |-> <<>>,
        ret |-> return_error("Error fetching transaction: ", r)]

\* fetch_n_void passing the reference where the id belongs.
fetch_n_void_on_fetch_voiding_reference(r, fr) ==
  IF fr.tag = "Panic"
    THEN [next |-> "return", id |-> "", lines |-> <<>>, ret |-> Panicked]
  ELSE IF fr.tag = "Ok"
    THEN IF fr.env.successful
           THEN IF HasId(fr.env)
                  THEN [next |-> "void", id |-> r, lines |-> <<>>, ret |-> Pending]
                  ELSE [next |-> "return", id |-> "", lines |-> <<>>,
                        ret |-> Panicked]
           ELSE IF HasFirstError(fr.env)
                  THEN [next |-> "return", id |-> "",
                        lines |-> <<VoidingFailedLine(r, FirstError(fr.env))>>,
                        ret |-> return_error("Could not fetch transaction: ", r)]
                  ELSE [next |-> "return", id |-> "", lines |-> <<>>,
                        ret |-> Panicked]
  ELSE [next |-> "return", id |-> "", lines |-> <<>>,
        ret |-> return_error("Error fetching transaction: ", r)]

(***************************************************************************)
(* fetch_n_void once block_on(future_purchase) has returned fr: it goes on *)
(* to the void request (next = "void", with the id), or it is over.        *)
(***************************************************************************)
fetch_n_void_on_fetch(r, fr) ==
  IF fr.tag = "Panic"
    THEN [next |-> "return", id |-> "", lines |-> <<>>, ret |-> Panicked]
  ELSE IF fr.tag = "Ok"
    THEN IF fr.env.successful
           THEN IF HasId(fr.env)
                  THEN [next |-> "void", id |-> IdOf(fr.env), lines |-> <<>>,
                        ret |-> Pending]
                  ELSE [next |-> "return", id |-> "", lines |-> <<>>,
                        ret |-> Panicked]
           ELSE IF HasFirstError(fr.env)
                  THEN [next |-> "return", id |-> "",
                        lines |-> <<VoidingFailedLine(r, FirstError(fr.env))>>,
                        ret |-> return_error("Could not fetch transaction: ", r)]
                  ELSE [next |-> "return", id |-> "", lines |-> <<>>,
                        ret |-> Panicked]
  ELSE [next |-> "return", id |-> "", lines |-> <<>>,
        ret |-> return_error("Error fetching transaction: ", r)]

(***************************************************************************)
(* fetch_n_void once block_on(future_void) has returned vr.                *)
(***************************************************************************)
fetch_n_void_on_void(r, vr) ==
  IF vr.tag = "Panic" THEN [lines |-> <<>>, ret |-> Panicked]
  ELSE IF vr.tag = "Ok"
    THEN IF HasFirstError(vr.env)
           THEN [lines |-> <<VoidingFailedLine(r, FirstError(vr.env))>>,
                 ret |-> Ok(EnvelopeDefault)]
           ELSE [lines |-> <<>>, ret |-> Panicked]
  ELSE [lines |-> <<>>, ret |-> return_error("Error voiding transaction: ", r)]

(***************************************************************************)
(* State.                                                                  *)
(***************************************************************************)
VARIABLES
  pc,            \* where main is: "main", "call", "fetch_wait", "void_wait", "exited"
  args,          \* Cli::parse()
  params,        \* _params
  void_trxs,     \* the lines read from the file
  idx,           \* position of the for loop in void_trxs
  refx,          \* the reference of the running fetch_n_void
  fetch_answer,  \* the gateway's answer to the GET of the running call
  void_answer,   \* the gateway's answer to the POST of the running call
  fetch_result,  \* block_on(future_purchase)
  void_result,   \* block_on(future_void)
  ret,           \* what the last fetch_n_void returned
  out,           \* stdout: the lines printed, each with the call that printed it
  reqs,          \* the HTTP requests sent, each with the call that sent it
  run,           \* number of fetch_n_void calls so far
  exit,          \* process exit status, -1 while running
  file,          \* the input file as read_file found it
  answered,      \* number of requests whose exchange is over
  http_response  \* a body text about to be decoded (None between the steps)

vars == <<pc, args, params, void_trxs, idx, refx, fetch_answer, void_answer,
          fetch_result, void_result, ret, out, reqs, run, exit, file, answered,
          http_response>>

Batch == params.filename # ""

NoFile == [exists |-> FALSE, lines |-> <<>>]

\* Everything but the command line and the body text, as main finds it.
Start ==
  /\ params = ParamsDefault
  /\ void_trxs = <<>>
  /\ idx = 0
  /\ refx = ""
  /\ fetch_answer = NoAnswer
  /\ void_answer = NoAnswer
  /\ fetch_result = Pending
  /\ void_result = Pending
  /\ ret = Pending
  /\ out = <<>>
  /\ reqs = <<>>
  /\ run = 0
  /\ exit = -1
  /\ file = NoFile
  /\ answered = 0

Init ==
  /\ pc = "main"
  /\ args \in Cli
  /\ Start
  /\ http_response = None

(***************************************************************************)
(* Single-reference runs over a wider choice of merchant ids and tokens.   *)
(***************************************************************************)
MerchantIds ==
  {"SC-scnet", "TEST", "test", "Test", "sc-scnet", "TEST ", "SC-scnet1", "LIVE-1"}
WideTokens == {"tok", "", "a_b.c 9"}

InitSingle ==
  /\ pc = "main"
  /\ args \in [username : MerchantIds, token : WideTokens,
               reference : {Some(r) : r \in CliReferences}, filename : {None}]
  /\ Start
  /\ http_response = None

Printed(lines) == [i \in 1..Len(lines) |-> [run |-> run, text |-> lines[i]]]

\* main without its test of void_trxs.is_empty(): the loop over no lines does
\* nothing and main returns Ok(()).
Main_without_empty_check ==
  /\ pc = "main"
  /\ LET p == PopulateParams(args) IN
     /\ params' = p
     /\ IF Len(p.filename) = 0
          THEN /\ pc' = "call"
               /\ UNCHANGED <<void_trxs, idx, exit, file>>
          ELSE \E f \in FileStates :
                 /\ file' = f
                 /\ void_trxs' = read_file(f)
                 /\ IF void_trxs' = <<>>
                      THEN /\ pc' = "exited"
                           /\ exit' = 0
                           /\ idx' = idx
                      ELSE /\ pc' = "call"
                           /\ idx' = 1
                           /\ exit' = exit
  /\ UNCHANGED <<args, refx, fetch_answer, void_answer, fetch_result, void_result,
                 ret, out, reqs, run, answered, http_response>>

(***************************************************************************)
(* main up to the first call of fetch_n_void: the parameters are filled   *)
(* in; with a file name the file is read, and no lines is an error.        *)
(***************************************************************************)
Main ==
  /\ pc = "main"
  /\ LET p == PopulateParams(args) IN
     /\ params' = p
     /\ IF Len(p.filename) = 0
          THEN /\ pc' = "call"
               /\ UNCHANGED <<void_trxs, idx, exit, file>>
          ELSE \E f \in FileStates :
                 /\ file' = f
                 /\ void_trxs' = read_file(f)
                 /\ IF void_trxs' = <<>>
                      THEN /\ pc' = "exited"
                           /\ exit' = 1
                           /\ idx' = idx
                      ELSE /\ pc' = "call"
                           /\ idx' = 1
                           /\ exit' = exit
  /\ UNCHANGED <<args, refx, fetch_answer, void_answer, fetch_result, void_result,
                 ret, out, reqs, run, answered, http_response>>

\* A batch driver that does not wait: with the GET of a line it already sends
\* the GET of the line after it.
CallFetchNVoid_sending_ahead ==
  /\ pc = "call"
  /\ LET r == IF Batch THEN void_trxs[idx] ELSE params.reference
         get == [run |-> run + 1, method |-> "GET",
                 url |-> get_fetch_url(params.username) \o r,
                 auth |-> Authorization(params)]
         ahead == IF Batch /\ idx < Len(void_trxs)
                    THEN <<[run |-> run + 2, method |-> "GET",
                            url |-> get_fetch_url(params.username)
                                      \o void_trxs[idx + 1],
                            auth |-> Authorization(params)]>>
                    ELSE <<>>
     IN /\ refx' = r
        /\ reqs' = Append(reqs, get) \o ahead
  /\ run' = run + 1
  /\ fetch_answer' = NoAnswer
  /\ void_answer' = NoAnswer
  /\ fetch_result' = Pending
  /\ void_result' = Pending
  /\ ret' = Pending
  /\ pc' = "fetch_wait"
  /\ UNCHANGED <<args, params, void_trxs, idx, out, exit, file, answered,
                 http_response>>

(***************************************************************************)
(* fetch_n_void is called (with None in single mode, with the line in     *)
(* batch mode) and sends the GET.                                          *)
(***************************************************************************)
CallFetchNVoid ==
  /\ pc = "call"
  /\ LET r == IF Batch THEN void_trxs[idx] ELSE params.reference IN
     /\ refx' = r
     /\ reqs' = Append(reqs, [run |-> run + 1, method |-> "GET",
                              url |-> get_fetch_url(params.username) \o r,
                              auth |-> Authorization(params)])
  /\ run' = run + 1
  /\ fetch_answer' = NoAnswer
  /\ void_answer' = NoAnswer
  /\ fetch_result' = Pending
  /\ void_result' = Pending
  /\ ret' = Pending
  /\ pc' = "fetch_wait"
  /\ UNCHANGED <<args, params, void_trxs, idx, out, exit, file, answered,
                 http_response>>

(***************************************************************************)
(* fetch_n_void returns r to main: a panic ends the process; in single     *)
(* mode r is the result of main; in batch mode r is dropped and the loop   *)
(* goes on, main returning Ok(()) after the last line.                     *)
(***************************************************************************)
Return(r) ==
  /\ ret' = r
  /\ IF r.tag = "Panic"
       THEN pc' = "exited" /\ exit' = 101 /\ idx' = idx
     ELSE IF ~Batch
       THEN pc' = "exited" /\ exit' = (IF r.tag = "Ok" THEN 0 ELSE 1) /\ idx' = idx
     ELSE IF idx < Len(void_trxs)
       THEN pc' = "call" /\ idx' = idx + 1 /\ exit' = exit
     ELSE pc' = "exited" /\ exit' = 0 /\ idx' = idx

(***************************************************************************)
(* The GET is answered.                                                    *)
(***************************************************************************)
FetchReturn ==
  /\ pc = "fetch_wait"
  /\ \E a \in {[ans |-> Observed(o), res |-> fetch_purchase(refx, o)] :
                  o \in HttpOutcomes} :
       LET fr == a.res
           step == fetch_n_void_on_fetch(refx, fr)
       IN  /\ fetch_answer' = a.ans
           /\ fetch_result' = fr
           /\ out' = out \o Printed(step.lines)
           /\ IF step.next = "void"
                THEN /\ reqs' = Append(reqs, [run |-> run, method |-> "POST",
                                 url |-> get_void_url(params.username) \o step.id,
                                 auth |-> Authorization(params)])
                     /\ pc' = "void_wait"
                     /\ UNCHANGED <<ret, idx, exit>>
                ELSE /\ Return(step.ret)
                     /\ reqs' = reqs
  /\ answered' = answered + 1
  /\ UNCHANGED <<args, params, void_trxs, refx, void_answer, void_result, run, file,
                 http_response>>

(***************************************************************************)
(* The POST is answered.                                                   *)
(***************************************************************************)
VoidReturn ==
  /\ pc = "void_wait"
  /\ \E a \in {[ans |-> Observed(o), call |-> void_transaction(refx, o)] :
                  o \in HttpOutcomes} :
       LET v == a.call
           step == fetch_n_void_on_void(refx, v.res)
       IN  /\ void_answer' = a.ans
           /\ void_result' = v.res
           /\ out' = out \o Printed(v.lines) \o Printed(step.lines)
           /\ Return(step.ret)
  /\ answered' = answered + 1
  /\ UNCHANGED <<args, params, void_trxs, refx, fetch_answer, fetch_result, reqs,
                 run, file, http_response>>

Next == Main \/ CallFetchNVoid \/ FetchReturn \/ VoidReturn

Spec == Init /\ [][Next]_vars

SpecSingle == InitSingle /\ [][Next]_vars

(***************************************************************************)
(* The decoder alone: a body text is received and decoded, as at the head  *)
(* of the match in fetch_purchase and in void_transaction.                 *)
(***************************************************************************)
InitDecode ==
  /\ pc = "decode"
  /\ args \in Cli
  /\ Start
  /\ http_response \in {Some(b) : b \in Bodies}

DecodeBody ==
  /\ pc = "decode"
  /\ fetch_answer' = Observed([kind |-> "text", body |-> Unwrap(http_response)])
  /\ pc' = "decoded"
  /\ UNCHANGED <<args, params, void_trxs, idx, refx, void_answer, fetch_result,
                 void_result, ret, out, reqs, run, exit, file, answered,
                 http_response>>

SpecDecode == InitDecode /\ [][DecodeBody]_vars

(***************************************************************************)
(* Vocabulary of the properties.                                           *)
(***************************************************************************)
\* The stdout lines of call n, in order.
LinesOf(n) ==
  LET mine == SelectSeq(out, LAMBDA l : l.run = n)
  IN  [i \in 1..Len(mine) |-> mine[i].text]

\* The positions in reqs of the requests of call n with method m.
ReqsOf(n, m) == {i \in 1..Len(reqs) : reqs[i].run = n /\ reqs[i].method = m}

StartsWith(s, prefix) ==
  Len(s) >= Len(prefix) /\ SubSeq(s, 1, Len(prefix)) = prefix

\* A call of fetch_n_void has been made and is over (returned or panicked).
Finished == run > 0 /\ ret.tag # "Pending"

\* The gateway's answer decoded to an envelope.
Decodable(a) == a.kind = "text" /\ a.dec.ok

FetchGaveId ==
  /\ Decodable(fetch_answer)
  /\ fetch_answer.dec.env.successful
  /\ HasId(fetch_answer.dec.env)
  /\ IdOf(fetch_answer.dec.env) # ""

VoidSucceeded == Decodable(void_answer) /\ void_answer.dec.env.successful

FetchSuccessfulWithoutId ==
  /\ Decodable(fetch_answer)
  /\ fetch_answer.dec.env.successful
  /\ ~(HasId(fetch_answer.dec.env) /\ IdOf(fetch_answer.dec.env) # "")

FetchUnsuccessful == Decodable(fetch_answer) /\ ~fetch_answer.dec.env.successful

VoidUnsuccessful == Decodable(void_answer) /\ ~void_answer.dec.env.successful

(***************************************************************************)
(* C1.  A reference whose fetch answers successful=true with a non-empty   *)
(* id and whose void answers successful=true ends with fetch_n_void        *)
(* returning Ok and with exactly the one stdout line "<reference> - Voided"*)
(* (so no "Voiding failed" line).                                          *)
(***************************************************************************)
C1_VoidedOnSuccess ==
  (Finished /\ FetchGaveId /\ VoidSucceeded)
    => /\ ret.tag = "Ok"
       /\ LinesOf(run) = <<VoidedLine(refx)>>

(***************************************************************************)
(* C2.  A line "<reference> - Voided" is on stdout only if a void request  *)
(* was sent for that reference and its answer decoded to an envelope with  *)
(* successful=true: never after a transport failure, an undecodable body   *)
(* or successful=false of the void.                                        *)
(***************************************************************************)
C2_VoidedOnlyAfterSuccessfulVoid ==
  \A i \in 1..Len(out) :
    (out[i].run = run /\ out[i].text = VoidedLine(refx))
      => /\ ReqsOf(run, "POST") # {}
         /\ VoidSucceeded

C2_Witness ==
  /\ Finished
  /\ VoidSucceeded
  /\ \E i \in 1..Len(out) : out[i].run = run /\ out[i].text = VoidedLine(refx)

(***************************************************************************)
(* C3.  In batch mode with a non-empty file the process does not end       *)
(* before the fetch request of every line of the file has been sent.       *)
(***************************************************************************)
C3_BatchDrainsInput ==
  (pc = "exited" /\ Batch /\ void_trxs # <<>>)
    => \A k \in 1..Len(void_trxs) :
         \E i \in ReqsOf(k, "GET") :
           reqs[i].url = get_fetch_url(params.username) \o void_trxs[k]

(***************************************************************************)
(* C4.  When the fetch answers successful=true without a response, or with *)
(* an empty response.id, fetch_n_void returns an error (no panic), sends   *)
(* no void request and prints no "<reference> - Voided".                   *)
(***************************************************************************)
C4_NoIdIsAnError ==
  FetchSuccessfulWithoutId
    => /\ ret.tag = "Err"
       /\ ReqsOf(run, "POST") = {}
       /\ \A i \in 1..Len(out) :
            out[i].run = run => out[i].text # VoidedLine(refx)

(***************************************************************************)
(* C5.  When the fetch answers successful=false, fetch_n_void prints the   *)
(* one line "<reference> - Voiding failed - <firstError>", firstError being*)
(* the first entry of errors or a placeholder when there is none, and      *)
(* returns an error (no panic).                                            *)
(***************************************************************************)
C5_FetchFailedPrintsFirstError ==
  FetchUnsuccessful
    => /\ ret.tag = "Err"
       /\ Len(LinesOf(run)) = 1
       /\ StartsWith(LinesOf(run)[1], refx \o " - Voiding failed - ")
       /\ HasFirstError(fetch_answer.dec.env)
            => LinesOf(run)[1]
                 = VoidingFailedLine(refx, FirstError(fetch_answer.dec.env))

(***************************************************************************)
(* C6.  When the void answers successful=false, whatever its errors slot   *)
(* holds, fetch_n_void prints exactly one line, starting                   *)
(* "<reference> - Voiding failed - ", and returns an error (no panic).     *)
(***************************************************************************)
C6_VoidRejectedPrintsOneLine ==
  VoidUnsuccessful
    => /\ ret.tag = "Err"
       /\ Len(LinesOf(run)) = 1
       /\ StartsWith(LinesOf(run)[1], refx \o " - Voiding failed - ")

(***************************************************************************)
(* C7.  Every call of fetch_n_void that is over has printed exactly one    *)
(* line, so the calls made so far have printed one line each.              *)
(***************************************************************************)
C7_OneLinePerReference ==
  Finished => /\ Len(LinesOf(run)) = 1
              /\ Len(out) = run

(***************************************************************************)
(* C8.  Each call of fetch_n_void sends exactly one fetch request and at   *)
(* most one void request, the void after the fetch; a void request is sent *)
(* only when the fetch has been answered with a decodable envelope that    *)
(* has successful=true; n calls send at most 2n requests.                  *)
(***************************************************************************)
C8_RequestDiscipline ==
  /\ \A n \in 1..run :
       /\ Cardinality(ReqsOf(n, "GET")) = 1
       /\ Cardinality(ReqsOf(n, "POST")) <= 1
       /\ \A g \in ReqsOf(n, "GET"), v \in ReqsOf(n, "POST") : g < v
  /\ \A i \in 1..Len(reqs) : reqs[i].run \in 1..run
  /\ Len(reqs) <= 2 * run
  /\ Batch => run <= Len(void_trxs)
  /\ ReqsOf(run, "POST") # {}
       => Decodable(fetch_answer) /\ fetch_answer.dec.env.successful

C8_Witness ==
  /\ Batch
  /\ run = 2
  /\ Finished
  /\ ReqsOf(1, "POST") = {}
  /\ ReqsOf(2, "POST") # {}
  /\ Len(reqs) = 3

(***************************************************************************)
(* C9.  Started with neither --reference nor --filename, the program sends *)
(* no HTTP request and exits with status 0.                                *)
(***************************************************************************)
C9_NoModeNoRequest ==
  (args.reference = None /\ args.filename = None)
    => /\ reqs = <<>>
       /\ pc = "exited" => exit = 0

(***************************************************************************)
(* C10.  In batch mode with a non-empty file the exit status is 0 whatever *)
(* the outcomes of the references; it is non-zero only when the file gave  *)
(* no lines.                                                               *)
(***************************************************************************)
C10_BatchExitsZero ==
  (pc = "exited" /\ Batch)
    => (exit = 0 <=> void_trxs # <<>>)

(***************************************************************************)
(* C11.  In batch mode, when the input file cannot be opened or has no     *)
(* lines, no HTTP request is sent and the process exits with a non-zero    *)
(* status.                                                                 *)
(***************************************************************************)
C11_BadFileNoRequest ==
  (pc # "main" /\ Batch /\ (~file.exists \/ file.lines = <<>>))
    => /\ reqs = <<>>
       /\ pc = "exited"
       /\ exit \notin {-1, 0}

C11_Witness ==
  /\ IsSome(args.filename)
  /\ pc = "exited"
  /\ ~file.exists
  /\ exit = 1
  /\ reqs = <<>>

(***************************************************************************)
(* C12.  In batch mode the references fetch_n_void is called with are the  *)
(* lines of the file with leading and trailing whitespace stripped and     *)
(* empty lines removed, in file order: the n-th call fetches the n-th such *)
(* reference, and a batch that ran to its end has made one call for each.  *)
(***************************************************************************)
IsSpace(c) == c = " "

RECURSIVE TrimStart(_)
TrimStart(s) ==
  IF Len(s) > 0 /\ IsSpace(CharAt(s, 1)) THEN TrimStart(SubSeq(s, 2, Len(s)))
  ELSE s

RECURSIVE TrimEnd(_)
TrimEnd(s) ==
  IF Len(s) > 0 /\ IsSpace(CharAt(s, Len(s)))
    THEN TrimEnd(SubSeq(s, 1, Len(s) - 1))
  ELSE s

Trim(s) == TrimEnd(TrimStart(s))

\* The references a file stands for.
ReferencesOf(lines) ==
  SelectSeq([i \in 1..Len(lines) |-> Trim(lines[i])], LAMBDA l : l # "")

C12_ReferencesAreTrimmedLines ==
  (pc # "main" /\ Batch)
    => LET refs == ReferencesOf(file.lines) IN
       /\ run <= Len(refs)
       /\ \A n \in 1..run :
            \A i \in ReqsOf(n, "GET") :
              reqs[i].url = get_fetch_url(params.username) \o refs[n]
       /\ (pc = "exited" /\ exit = 0) => run = Len(refs)

(***************************************************************************)
(* C13.  Processing is strictly sequential and in input order: requests    *)
(* and output lines are in the order of the calls, every request and line  *)
(* of a call is made while that call is the latest one, the void of a call *)
(* is sent only once its fetch has been answered, and at most one request  *)
(* is unanswered at any time.                                              *)
(***************************************************************************)
InFlight == Len(reqs) - answered

C13_Ordered ==
  /\ InFlight \in {0, 1}
  /\ \A i, j \in 1..Len(reqs) : i < j => reqs[i].run <= reqs[j].run
  /\ \A i, j \in 1..Len(out) : i < j => out[i].run <= out[j].run
  /\ \A i \in 1..Len(reqs) : reqs[i].run <= run
  /\ \A i \in 1..Len(out) : out[i].run <= run
  /\ Batch => \A i \in 1..Len(reqs) :
                reqs[i].method = "GET"
                  => reqs[i].url = get_fetch_url(params.username)
                                     \o void_trxs[reqs[i].run]
  /\ ReqsOf(run, "POST") # {} => fetch_answer.kind = "text"

\* A step adds requests and lines only for the call that is then the latest,
\* and sends a request only when none is unanswered.
C13_StepIsSequential ==
  /\ run' >= run
  /\ \A i \in (Len(reqs) + 1)..Len(reqs') : reqs'[i].run = run'
  /\ \A i \in (Len(out) + 1)..Len(out') : out'[i].run = run'
  /\ Len(reqs') > Len(reqs) => (Len(reqs') = Len(reqs) + 1 /\ InFlight' = 1)
  /\ SubSeq(reqs', 1, Len(reqs)) = reqs
  /\ SubSeq(out', 1, Len(out)) = out

C13_Sequential == []C13_Ordered /\ [][C13_StepIsSequential]_vars

C13_Witness ==
  /\ Batch
  /\ run = 2
  /\ pc = "exited"
  /\ Len(reqs) = 4
  /\ Len(out) >= 2

(***************************************************************************)
(* C14.  A transport failure of the fetch or of the void request (send     *)
(* failure, timeout, failure while the body is read) makes fetch_n_void    *)
(* return an error (no panic); "<reference> - Voided" is not printed and   *)
(* no further request is sent for the reference.                           *)
(***************************************************************************)
TransportFailed(a) == a.kind \in {"send_fail", "body_fail"}

C14_TransportFailureIsAnError ==
  (TransportFailed(fetch_answer) \/ TransportFailed(void_answer))
    => /\ ret.tag = "Err"
       /\ \A i \in 1..Len(out) :
            out[i].run = run => out[i].text # VoidedLine(refx)
       /\ TransportFailed(fetch_answer) => ReqsOf(run, "POST") = {}
       /\ Cardinality(ReqsOf(run, "GET") \cup ReqsOf(run, "POST")) <= 2

HostPrefixFor(merchant_id) ==
  IF merchant_id \in {"SC-scnet", "TEST"}
    THEN "https://gateway.pmnts-sandbox.io/"
    ELSE "https://gateway.pmnts.io/"

C16_SameEnvironment ==
  /\ StartsWith(get_fetch_url(args.username), HostPrefixFor(args.username))
  /\ StartsWith(get_void_url(args.username), HostPrefixFor(args.username))
  /\ \A i \in 1..Len(reqs) :
       StartsWith(reqs[i].url, HostPrefixFor(params.username))

C16_Witness ==
  /\ params.username = "TEST"
  /\ Len(reqs) = 2
  /\ StartsWith(reqs[1].url, "https://gateway.pmnts-sandbox.io/v1.0/purchases/")
  /\ StartsWith(reqs[2].url,
                "https://gateway.pmnts-sandbox.io/v1.0/purchases/void?id=")

(***************************************************************************)
(* C17.  Every request, fetch or void, carries the header Authorization =  *)
(* "Basic " + base64(username + ":" + token) for the username and token    *)
(* given on the command line, in every mode in which a request is sent.    *)
(***************************************************************************)
C17_AuthorizationFromCli ==
  \A i \in 1..Len(reqs) :
    reqs[i].auth = "Basic " \o base64_encode(args.username \o ":" \o args.token)

(***************************************************************************)
(* C18.  The void request of a call carries exactly the response.id        *)
(* decoded from the answer to the fetch of that same call.                 *)
(***************************************************************************)
C18_VoidUsesFetchedId ==
  \A i \in ReqsOf(run, "POST") :
    /\ Decodable(fetch_answer)
    /\ HasId(fetch_answer.dec.env)
    /\ reqs[i].url = get_void_url(params.username) \o IdOf(fetch_answer.dec.env)

C18_Witness ==
  /\ Batch
  /\ run = 2
  /\ Len(reqs) = 4
  /\ reqs[2].url = get_void_url(params.username) \o "txn-9"
  /\ reqs[4].url = get_void_url(params.username) \o ""
  /\ IdOf(fetch_answer.dec.env) = ""

(***************************************************************************)
(* C19.  A body that is a JSON object always decodes: a well-typed         *)
(* response or errors slot decodes to Some(Some(value)), a missing, null   *)
(* or ill-typed one to None, never to Some(None); successful is false when *)
(* missing; decoding fails only for a body that is not a JSON object.      *)
(***************************************************************************)
SlotDecodesAsClaimed(slot, field) ==
  /\ slot.shape = "value" => field = Some(Some(slot.val))
  /\ slot.shape # "value" => field = None
  /\ field # Some(None)

C19_DecoderIsTolerant ==
  pc = "decoded"
    => LET b == Unwrap(http_response)
           d == fetch_answer.dec
       IN  /\ d.ok <=> b.json
           /\ b.json
                => /\ SlotDecodesAsClaimed(b.response, d.env.response)
                   /\ SlotDecodesAsClaimed(b.errors, d.env.errors)
                   /\ b.successful.shape = "missing" => ~d.env.successful

(***************************************************************************)
(* C20.  In single-reference mode the exit status is 0 exactly when the    *)
(* reference was voided (the fetch gave an id and the void answered        *)
(* successful=true); every other outcome exits non-zero through the error  *)
(* that fetch_n_void returns.                                              *)
(***************************************************************************)
SingleMode == IsSome(args.reference) /\ ~IsSome(args.filename)

WasVoided ==
  /\ Decodable(fetch_answer)
  /\ fetch_answer.dec.env.successful
  /\ HasId(fetch_answer.dec.env)
  /\ VoidSucceeded

C20_SingleExitStatus ==
  (SingleMode /\ pc = "exited")
    => /\ exit = 0 <=> WasVoided
       /\ exit # 0 => ret.tag = "Err"

====
